---- MODULE Spec2Model ----
(***************************************************************************)
(* A model of the SnippetVCS core (src/vcs/src/core): the object store,    *)
(* the staging index, the commit writer, the reference store and the part  *)
(* of the merge engine that drives them.  Files are modelled by their      *)
(* contents as token sequences, hashes by the content they digest.         *)
(***************************************************************************)
EXTENDS Integers, Sequences, FiniteSets, TLC

VARIABLES
    objects,    \* object store: hash -> bytes of .svcs/objects/xx/yyyy
    refs,       \* branch name -> contents of .svcs/refs/heads/<name>
    dirs,       \* directories that exist below .svcs/refs/heads (as name prefixes)
    HEAD,       \* contents of .svcs/HEAD
    index,      \* repo->index->entries of the open handle
    indexFile,  \* contents of .svcs/index
    wt,         \* working tree: path -> file or NoFile
    pc,         \* position of the handle inside svcs_commit_create
    cc,         \* locals of the running svcs_commit_create
    faults,     \* number of I/O faults injected so far
    last,       \* the last call and what it returned
    dag,        \* a CommitDAG object: its nodes, roots and heads
    tw,         \* the last three-way merge or diff of lines: arguments and result
    sess        \* the sessions that write refs side by side: their positions

vars == <<objects, refs, dirs, HEAD, index, indexFile, wt, pc, cc, faults, last,
          dag, tw, sess>>

----------------------------------------------------------------------------
(* Bounds of the model *)

MaxData == 1        \* file contents are 0..MaxData (0 is the empty file)
MaxStamp == 1       \* distinct (message, author, time) triples per commit
MaxCommits == 2     \* commit objects in the store
MaxFaults == 1      \* injected I/O faults per behaviour
MaxRaw == 1         \* objects written by direct svcs_object_write calls

(* Program constants *)

SVCS_HASH_SIZE == 32
IndexVersion == 1

Paths == {"a.txt", "b.txt"}
\* the branch names used in the specification with faults
FaultNames == {<<"main">>, <<"dev">>}
\* the paths staged in the specifications about commits and branches
CommitPaths == {"a.txt"}
Names == {<<"main">>, <<"dev">>, <<"feature", "x">>}
Types == {"blob", "tree", "commit", "tag"}

NoFile == [absent |-> TRUE]
NL == [nl |-> TRUE]

----------------------------------------------------------------------------
(* Hashing (hash.c).  A digest is modelled by the header and payload it
   digests, so equal inputs give equal hashes and distinct inputs distinct
   ones. *)

svcs_hash_init == [zero |-> TRUE]

\* a hash a caller made up (tests use 32 bytes 0xFF)
FakeHash == [fake |-> TRUE]

\* whatever an out-of-bounds read of a ref buffer happens to parse to
GarbageHash == [garbage |-> TRUE]

svcs_hash_object(type, payload, size) ==
    [type |-> type, size |-> size, payload |-> payload]

\* the two encodings of a hash used as keys and in files
svcs_hash_to_string(h) == [hex |-> h]
RawBytes(h) == [raw |-> h]

\* {h} when str is a 64 character hex string, {} (SVCS_ERROR_INVALID) otherwise
svcs_hash_from_string(str) ==
    IF "hex" \in DOMAIN str THEN {str.hex} ELSE {}

is_zero(h) == h = svcs_hash_init

----------------------------------------------------------------------------
(* Whole-file I/O (utils.c) *)

Prefixes(data) == {SubSeq(data, 1, k) : k \in 0..(Len(data) - 1)}

\* The contents a file can have after svcs_file_write(path, data) and the
\* result returned, by outcome: the write succeeds; fopen fails; fopen has
\* truncated the file and fewer than size bytes are written.
FileWriteOutcomes == {"ok", "open_fail", "short"}

svcs_file_write(old, data, outcome) ==
    CASE outcome = "ok" -> {[file |-> data, res |-> "OK"]}
      [] outcome = "open_fail" -> {[file |-> old, res |-> "IO"]}
      [] outcome = "short" -> {[file |-> p, res |-> "IO"] : p \in Prefixes(data)}

\* fopen(path, "wb") below refs/heads needs the parent directory
ParentDir(name) == SubSeq(name, 1, Len(name) - 1)

\* svcs_mkdir_recursive(dirname): the directory and all its ancestors
MkdirRecursive(ds, d) == ds \cup {SubSeq(d, 1, k) : k \in 0..Len(d)}

svcs_file_exists_ref(name) == name \in DOMAIN refs \/ name \in dirs

----------------------------------------------------------------------------
(* File formats *)

\* refs/heads/<name>: the hex hash and a newline (branch.c 22-28, commit.c 192-194)
RefFile(h) == <<svcs_hash_to_string(h), NL>>

\* HEAD as written by init and checkout: "ref: refs/heads/<name>\n"
SymbolicHead(name) == <<[ref |-> name], NL>>

NoBranch == <<>>
GarbageName == <<"?">>

\* The branch a reader takes HEAD to name (commit.c 82-91, branch.c 161-167).
\* The buffer svcs_file_read returns is not terminated: without the newline
\* the strchr and strncmp of the callers read past its end, and the name they
\* see is the one in the file or that name followed by garbage; an empty
\* buffer is all garbage.
HeadBranch(head) ==
    CASE Len(head) = 2 /\ "ref" \in DOMAIN head[1] -> {head[1].ref}
      [] Len(head) = 1 /\ "ref" \in DOMAIN head[1] -> {head[1].ref, GarbageName}
      [] Len(head) = 0 -> {NoBranch, GarbageName}
      [] OTHER -> {NoBranch}

\* The hash a reader parses from a ref file (commit.c 95-100, dag.cpp 56-63):
\* the set of hashes svcs_hash_from_string can yield, {} standing for its
\* failure.  Without the newline the string runs into whatever follows the
\* buffer.
ReadRefHash(content) ==
    CASE Len(content) = 2 -> {svcs_hash_from_string(content[1])}
      [] Len(content) = 1 -> {svcs_hash_from_string(content[1]), {}}
      [] OTHER -> {{}, {GarbageHash}}

\* the object file svcs_object_write produces (object.c 140-155): the header
\* and its zero byte, not compressed, no payload
ObjectFile(type, size) ==
    [compressed |-> FALSE, header |-> [type |-> type, size |-> size], payload |-> 0]

\* svcs_decompress (compress.c 36-83): zlib's uncompress rejects bytes that
\* are no zlib stream
svcs_decompress(bytes) ==
    IF bytes.compressed
    THEN [res |-> "OK", header |-> bytes.header, payload |-> bytes.payload]
    ELSE [res |-> "ERROR"]

\* an index file whose count field is one short of the entries written
IndexBytesShort(entries) ==
    <<[version |-> IndexVersion],
      [count |-> IF Len(entries) = 0 THEN 0 ELSE Len(entries) - 1]>> \o entries

\* the index file svcs_index_save writes (index.c 103-127)
IndexBytes(entries) ==
    <<[version |-> IndexVersion], [count |-> Len(entries)]>> \o entries

----------------------------------------------------------------------------
(* Object store (object.c) *)

\* svcs_object_read: the result and, when OK, the object's type, size and hash
svcs_object_read(objs, h) ==
    IF h \notin DOMAIN objs THEN [res |-> "NOT_FOUND"]
    ELSE LET d == svcs_decompress(objs[h]) IN
         IF d.res # "OK" THEN [res |-> d.res]
         ELSE IF d.header.type \notin Types THEN [res |-> "CORRUPT"]
         ELSE IF d.payload # d.header.size THEN [res |-> "CORRUPT"]
         ELSE [res |-> "OK", type |-> d.header.type, size |-> d.header.size,
               hash |-> h]

ObjectWriteOutcomes == {"ok", "open_fail"}

\* svcs_object_write of (type, size, hash h): the store afterwards and the
\* result.  An object file that exists is left alone.
svcs_object_write(objs, h, type, size, outcome) ==
    IF h \in DOMAIN objs THEN [objs |-> objs, res |-> "OK"]
    ELSE IF type \notin Types THEN [objs |-> objs, res |-> "INVALID"]
    ELSE IF outcome = "open_fail" THEN [objs |-> objs, res |-> "IO"]
    ELSE [objs |-> (h :> ObjectFile(type, size)) @@ objs, res |-> "OK"]

CommitHashes(objs) == {h \in DOMAIN objs : objs[h].header.type = "commit"}

----------------------------------------------------------------------------
(* Fault injection: every call names the outcome of each file it opens for
   writing; an outcome other than "ok" uses up one of MaxFaults faults. *)

Cost(outs) == Cardinality({i \in DOMAIN outs : outs[i] # "ok"})

Inject(outs) ==
    /\ faults + Cost(outs) <= MaxFaults
    /\ faults' = faults + Cost(outs)

----------------------------------------------------------------------------
(* Working tree: the files svcs_index_add reads *)

Files(maxData) == [data : 0..maxData, mtime : {1}, mode : {"100644"}]

\* the user creates, overwrites or deletes a file
WorkTreeWrite(path, f) ==
    /\ pc = "idle"
    /\ wt[path] # f
    /\ wt' = [wt EXCEPT ![path] = f]
    /\ last' = [op |-> "edit"]
    /\ UNCHANGED <<objects, refs, dirs, HEAD, index, indexFile, pc, cc, faults,
                   dag, tw, sess>>

\* svcs_hash_file (hash.c 63-97): the blob hash of the file's bytes
svcs_hash_file(f) == svcs_hash_object("blob", [bytes |-> f.data], f.data)

----------------------------------------------------------------------------
(* Staging index (index.c) *)

\* svcs_index_load: parse the index file
svcs_index_load(file) ==
    IF Len(file) = 0 THEN [res |-> "OK", entries |-> <<>>]
    ELSE IF Len(file) < 2 THEN [res |-> "CORRUPT"]
    ELSE IF file[1] # [version |-> IndexVersion] THEN [res |-> "CORRUPT"]
    ELSE IF Len(file) - 2 < file[2].count THEN [res |-> "CORRUPT"]
    ELSE [res |-> "OK", entries |-> SubSeq(file, 3, 2 + file[2].count)]

\* svcs_index_save: the index file afterwards and the result
svcs_index_save(entries, file, outcome) ==
    svcs_file_write(file, IndexBytes(entries), outcome)

Find(entries, path) ==
    IF \E i \in 1..Len(entries) : entries[i].path = path
    THEN CHOOSE i \in 1..Len(entries) :
            /\ entries[i].path = path
            /\ \A j \in 1..(i - 1) : entries[j].path # path
    ELSE 0

\* index.c 164-193: update the entry of path, or append one
Upsert(entries, path, f) ==
    LET e == [path |-> path, hash |-> svcs_hash_file(f), mode |-> f.mode,
              mtime |-> f.mtime, size |-> f.data, status |-> "ADDED"]
        i == Find(entries, path)
    IN IF i = 0 THEN Append(entries, e) ELSE [entries EXCEPT ![i] = e]

\* index.c 207-209: shift the entries after i down by one
RemoveAt(entries, i) ==
    SubSeq(entries, 1, i - 1) \o SubSeq(entries, i + 1, Len(entries))

svcs_index_add(path, blobOut, saveOut) ==
    /\ pc = "idle"
    /\ IF wt[path] = NoFile
       THEN /\ blobOut = "ok" /\ saveOut = "ok"
            /\ last' = [op |-> "index_add", res |-> "NOT_FOUND"]
            /\ UNCHANGED <<objects, index, indexFile, faults>>
       ELSE LET f == wt[path]
                w == svcs_object_write(objects, svcs_hash_file(f), "blob",
                                       f.data, blobOut)
            IN IF w.res # "OK"
               THEN /\ saveOut = "ok"
                    /\ Inject(<<blobOut>>)
                    /\ last' = [op |-> "index_add", res |-> w.res]
                    /\ UNCHANGED <<objects, index, indexFile>>
               ELSE /\ blobOut = "ok"
                    /\ Inject(<<saveOut>>)
                    /\ objects' = w.objs
                    /\ index' = Upsert(index, path, f)
                    /\ \E s \in svcs_index_save(index', indexFile, saveOut) :
                          /\ indexFile' = s.file
                          /\ last' = [op |-> "index_add", res |-> s.res]
    /\ UNCHANGED <<refs, dirs, HEAD, wt, pc, cc, dag, tw, sess>>

\* an svcs_index_remove that also unlinks the blob of the entry it drops
svcs_index_remove_pruning(path, saveOut) ==
    /\ pc = "idle"
    /\ LET i == Find(index, path) IN
       IF i = 0
       THEN /\ saveOut = "ok"
            /\ last' = [op |-> "index_remove", res |-> "NOT_FOUND"]
            /\ UNCHANGED <<objects, index, indexFile, faults>>
       ELSE /\ Inject(<<saveOut>>)
            /\ index' = RemoveAt(index, i)
            /\ objects' = [h \in DOMAIN objects \ {index[i].hash} |-> objects[h]]
            /\ \E s \in svcs_index_save(index', indexFile, saveOut) :
                  /\ indexFile' = s.file
                  /\ last' = [op |-> "index_remove", res |-> s.res]
    /\ UNCHANGED <<refs, dirs, HEAD, wt, pc, cc, dag, tw, sess>>

svcs_index_remove(path, saveOut) ==
    /\ pc = "idle"
    /\ LET i == Find(index, path) IN
       IF i = 0
       THEN /\ saveOut = "ok"
            /\ last' = [op |-> "index_remove", res |-> "NOT_FOUND"]
            /\ UNCHANGED <<index, indexFile, faults>>
       ELSE /\ Inject(<<saveOut>>)
            /\ index' = RemoveAt(index, i)
            /\ \E s \in svcs_index_save(index', indexFile, saveOut) :
                  /\ indexFile' = s.file
                  /\ last' = [op |-> "index_remove", res |-> s.res]
    /\ UNCHANGED <<objects, refs, dirs, HEAD, wt, pc, cc, dag, tw, sess>>

----------------------------------------------------------------------------
(* Commit writer (commit.c) *)

RECURSIVE TreeSize(_)
\* commit.c 15-20: mode, space, name, zero byte, hash for every entry
TreeSize(entries) ==
    IF entries = <<>> THEN 0
    ELSE Len(Head(entries).mode) + 1 + Len(Head(entries).path) + 1
         + SVCS_HASH_SIZE + TreeSize(Tail(entries))

\* commit.c 27-39: the tree payload, the entries in index order
TreePayload(entries) ==
    [entries |-> [i \in 1..Len(entries) |->
        [mode |-> entries[i].mode, name |-> entries[i].path,
         hash |-> RawBytes(entries[i].hash)]]]

\* a create_tree_from_index that does not look at what svcs_object_write returns
create_tree_unchecked(objs, entries, outcome) ==
    IF Len(entries) = 0
    THEN [tree |-> svcs_hash_init, objs |-> objs, res |-> "OK"]
    ELSE LET h == svcs_hash_object("tree", TreePayload(entries), TreeSize(entries))
             w == svcs_object_write(objs, h, "tree", TreeSize(entries), outcome)
         IN [tree |-> h, objs |-> w.objs, res |-> "OK"]

\* create_tree_from_index: the tree hash, the store afterwards, the result
create_tree_from_index(objs, entries, outcome) ==
    IF Len(entries) = 0
    THEN [tree |-> svcs_hash_init, objs |-> objs, res |-> "OK"]
    ELSE LET h == svcs_hash_object("tree", TreePayload(entries), TreeSize(entries))
             w == svcs_object_write(objs, h, "tree", TreeSize(entries), outcome)
         IN [tree |-> h, objs |-> w.objs, res |-> w.res]

\* commit.c 82-105: the parent hash read through HEAD, for HEAD naming b
ParentHashes(b) ==
    IF b # NoBranch /\ b \in DOMAIN refs
    THEN {IF r = {} THEN svcs_hash_init ELSE CHOOSE h \in r : TRUE :
            r \in ReadRefHash(refs[b])}
    ELSE {svcs_hash_init}

\* commit.c 107-147: the commit text; no parent line for a first commit
CommitContent(tree, parent, stamp) ==
    [tree |-> svcs_hash_to_string(tree),
     parent |-> IF is_zero(parent) THEN <<>> ELSE <<svcs_hash_to_string(parent)>>,
     stamp |-> stamp]

CommitSize(content) == 70 + 72 * Len(content.parent) + 40 + content.stamp

\* which call a finished svcs_commit_create reports to
Return(caller, res, h) ==
    IF caller = "merge"
    THEN [op |-> "merge", success |-> (res = "OK"), fast_forward |-> FALSE,
          conflicts |-> 0, hash |-> h, error |-> ""]
    ELSE [op |-> "commit", res |-> res, hash |-> h]

\* commit.c 61-71: the call starts and synthesizes the tree
CommitTreeStepWithin(max, caller, stamp, treeOut) ==
    /\ Cardinality(CommitHashes(objects)) < max
    /\ LET t == create_tree_from_index(objects, index, treeOut) IN
       /\ (Len(index) = 0 \/ t.tree \in DOMAIN objects) => treeOut = "ok"
       /\ Inject(<<treeOut>>)
       /\ objects' = t.objs
       /\ IF t.res # "OK"
          THEN /\ pc' = "idle"
               /\ cc' = [caller |-> "none"]
               /\ last' = Return(caller, t.res, svcs_hash_init)
          ELSE /\ pc' = "commit_object"
               /\ cc' = [caller |-> caller, tree |-> t.tree, stamp |-> stamp]
               /\ last' = [op |-> "commit_step", step |-> "tree"]

CommitTreeStep(caller, stamp, treeOut) ==
    CommitTreeStepWithin(MaxCommits, caller, stamp, treeOut)

svcs_commit_create(stamp, treeOut) ==
    /\ pc = "idle"
    /\ CommitTreeStep("commit", stamp, treeOut)
    /\ UNCHANGED <<refs, dirs, HEAD, index, indexFile, wt, dag, tw, sess>>

\* a commit writer that goes on to the ref update whatever svcs_object_write
\* returned
commit_write_object_unchecked(commitOut) ==
    /\ pc = "commit_object"
    /\ \E b \in HeadBranch(HEAD) : \E parent \in ParentHashes(b) :
          LET content == CommitContent(cc.tree, parent, cc.stamp)
              h == svcs_hash_object("commit", content, CommitSize(content))
              w == svcs_object_write(objects, h, "commit", CommitSize(content),
                                     commitOut)
          IN /\ h \in DOMAIN objects => commitOut = "ok"
             /\ Inject(<<commitOut>>)
             /\ objects' = w.objs
             /\ pc' = "commit_ref"
             /\ cc' = [caller |-> cc.caller, tree |-> cc.tree,
                       stamp |-> cc.stamp, hash |-> h]
             /\ last' = [op |-> "commit_step", step |-> "object"]
    /\ UNCHANGED <<refs, dirs, HEAD, index, indexFile, wt, dag, tw, sess>>

\* commit.c 73-165: resolve the parent, build, hash and write the commit
commit_write_object(commitOut) ==
    /\ pc = "commit_object"
    /\ \E b \in HeadBranch(HEAD) : \E parent \in ParentHashes(b) :
          LET content == CommitContent(cc.tree, parent, cc.stamp)
              h == svcs_hash_object("commit", content, CommitSize(content))
              w == svcs_object_write(objects, h, "commit", CommitSize(content),
                                     commitOut)
          IN /\ h \in DOMAIN objects => commitOut = "ok"
             /\ Inject(<<commitOut>>)
             /\ objects' = w.objs
             /\ IF w.res # "OK"
                THEN /\ pc' = "idle"
                     /\ cc' = [caller |-> "none"]
                     /\ last' = Return(cc.caller, w.res, h)
                ELSE /\ pc' = "commit_ref"
                     /\ cc' = [caller |-> cc.caller, tree |-> cc.tree,
                               stamp |-> cc.stamp, hash |-> h]
                     /\ last' = [op |-> "commit_step", step |-> "object"]
    /\ UNCHANGED <<refs, dirs, HEAD, index, indexFile, wt, dag, tw, sess>>

\* commit.c 167-199: write the hash to the branch HEAD names; the result of
\* the write is not looked at
commit_update_ref(refOut) ==
    /\ pc = "commit_ref"
    /\ \E b \in HeadBranch(HEAD) :
          IF b = NoBranch
          THEN /\ refOut = "ok"
               /\ UNCHANGED <<refs, dirs, faults>>
          ELSE /\ Inject(<<refOut>>)
               /\ dirs' = MkdirRecursive(dirs, ParentDir(b))
               /\ \E w \in svcs_file_write(IF b \in DOMAIN refs THEN refs[b] ELSE <<>>,
                                           RefFile(cc.hash), refOut) :
                     refs' = IF refOut = "open_fail" THEN refs
                             ELSE (b :> w.file) @@ refs
    /\ pc' = "idle"
    /\ cc' = [caller |-> "none"]
    /\ last' = Return(cc.caller, "OK", cc.hash)
    /\ UNCHANGED <<objects, HEAD, index, indexFile, wt, dag, tw, sess>>

----------------------------------------------------------------------------
(* Direct use of the object store (tests/test_object.c 69-83): the caller
   hashes a payload and writes the object *)

RawHashes(objs) == {h \in DOMAIN objs : "bytes" \in DOMAIN h.payload /\ h.type # "blob"}

object_write(type, data, out) ==
    /\ pc = "idle"
    /\ LET h == svcs_hash_object(type, [bytes |-> data], data)
           w == svcs_object_write(objects, h, type, data, out)
       IN /\ h \notin DOMAIN objects => Cardinality(RawHashes(objects)) < MaxRaw
          /\ h \in DOMAIN objects => out = "ok"
          /\ Inject(<<out>>)
          /\ objects' = w.objs
          /\ last' = [op |-> "object_write", res |-> w.res, hash |-> h,
                      type |-> type, size |-> data]
    /\ UNCHANGED <<refs, dirs, HEAD, index, indexFile, wt, pc, cc, dag, tw, sess>>

----------------------------------------------------------------------------
(* Reference store (branch.c) *)

Without(f, x) == [y \in DOMAIN f \ {x} |-> f[y]]

svcs_branch_create(name, hash, out) ==
    /\ pc = "idle"
    /\ IF svcs_file_exists_ref(name)
       THEN /\ out = "ok"
            /\ last' = [op |-> "branch_create", name |-> name, hash |-> hash,
                        res |-> "EXISTS"]
            /\ UNCHANGED <<refs, dirs, faults>>
       ELSE /\ dirs' = MkdirRecursive(dirs, <<>>)
            /\ IF ParentDir(name) \notin dirs'
               THEN \* fopen fails: the directory of the ref does not exist
                    /\ out = "ok"
                    /\ last' = [op |-> "branch_create", name |-> name,
                                hash |-> hash, res |-> "IO"]
                    /\ UNCHANGED <<refs, faults>>
               ELSE /\ Inject(<<out>>)
                    /\ \E w \in svcs_file_write(<<>>, RefFile(hash), out) :
                          /\ refs' = IF out = "open_fail" THEN refs
                                     ELSE (name :> w.file) @@ refs
                          /\ last' = [op |-> "branch_create", name |-> name,
                                      hash |-> hash, res |-> w.res]
    /\ UNCHANGED <<objects, HEAD, index, indexFile, wt, pc, cc, dag, tw, sess>>

\* a checkout that does not test whether the branch exists
svcs_branch_checkout_unchecked(name, out) ==
    /\ pc = "idle"
    /\ Inject(<<out>>)
    /\ \E w \in svcs_file_write(HEAD, SymbolicHead(name), out) :
          /\ HEAD' = w.file
          /\ last' = [op |-> "branch_checkout", name |-> name, res |-> w.res]
    /\ UNCHANGED <<objects, refs, dirs, index, indexFile, wt, pc, cc, dag, tw, sess>>

svcs_branch_checkout(name, out) ==
    /\ pc = "idle"
    /\ IF ~svcs_file_exists_ref(name)
       THEN /\ out = "ok"
            /\ last' = [op |-> "branch_checkout", name |-> name, res |-> "NOT_FOUND"]
            /\ UNCHANGED <<HEAD, faults>>
       ELSE /\ Inject(<<out>>)
            /\ \E w \in svcs_file_write(HEAD, SymbolicHead(name), out) :
                  /\ HEAD' = w.file
                  /\ last' = [op |-> "branch_checkout", name |-> name, res |-> w.res]
    /\ UNCHANGED <<objects, refs, dirs, index, indexFile, wt, pc, cc, dag, tw, sess>>

RemoveOutcomes == {"ok", "remove_fail"}

\* a delete that does not compare the name with the current branch
svcs_branch_delete_any(name, out) ==
    /\ pc = "idle"
    /\ IF ~svcs_file_exists_ref(name)
       THEN /\ out = "ok"
            /\ last' = [op |-> "branch_delete", name |-> name, res |-> "NOT_FOUND"]
            /\ UNCHANGED <<refs, faults>>
       ELSE /\ Inject(<<out>>)
            /\ refs' = IF out = "ok" THEN Without(refs, name) ELSE refs
            /\ last' = [op |-> "branch_delete", name |-> name,
                        res |-> IF out = "ok" THEN "OK" ELSE "IO"]
    /\ UNCHANGED <<objects, dirs, HEAD, index, indexFile, wt, pc, cc, dag, tw, sess>>

svcs_branch_delete(name, out) ==
    /\ pc = "idle"
    /\ \E current \in HeadBranch(HEAD) :
          IF current = name
          THEN /\ out = "ok"
               /\ last' = [op |-> "branch_delete", name |-> name, res |-> "INVALID"]
               /\ UNCHANGED <<refs, faults>>
          ELSE IF ~svcs_file_exists_ref(name)
          THEN /\ out = "ok"
               /\ last' = [op |-> "branch_delete", name |-> name, res |-> "NOT_FOUND"]
               /\ UNCHANGED <<refs, faults>>
          ELSE /\ Inject(<<out>>)
               /\ refs' = IF out = "ok" THEN Without(refs, name) ELSE refs
               /\ last' = [op |-> "branch_delete", name |-> name,
                           res |-> IF out = "ok" THEN "OK" ELSE "IO"]
    /\ UNCHANGED <<objects, dirs, HEAD, index, indexFile, wt, pc, cc, dag, tw, sess>>

----------------------------------------------------------------------------
(* Merge engine (merge_engine.cpp) over the commit graph (dag.cpp) *)

NoNode == [none |-> TRUE]

\* what one reader of the ref files parses from each of them
RefViews ==
    {v \in [DOMAIN refs -> UNION {ReadRefHash(refs[n]) : n \in DOMAIN refs}] :
        \A n \in DOMAIN refs : v[n] \in ReadRefHash(refs[n])}

\* CommitDAG::load_from_repository with load_commit_chain: one node, keyed by
\* the hex hash and without parents, for every entry of refs/heads whose
\* file parses to a hash
load_from_repository(view) ==
    IF <<>> \notin dirs THEN {}
    ELSE {svcs_hash_to_string(h) :
            h \in UNION {view[n] : n \in {m \in DOMAIN refs : Len(m) = 1}}}

\* CommitDAG::resolve_reference (dag.cpp 307-337): the branch file of that
\* name, then the first node whose hex hash starts with ref
resolve_reference(nodes, view, ref) ==
    IF /\ "branch" \in DOMAIN ref
       /\ ref.branch \in DOMAIN refs
       /\ view[ref.branch] # {}
       /\ svcs_hash_to_string(CHOOSE h \in view[ref.branch] : TRUE) \in nodes
    THEN svcs_hash_to_string(CHOOSE h \in view[ref.branch] : TRUE)
    ELSE IF "hex" \in DOMAIN ref /\ ref \in nodes THEN ref
    ELSE NoNode

\* CommitDAG::get_commit (dag.cpp 130-139)
get_commit(nodes, view, key) ==
    IF key \in nodes THEN key ELSE resolve_reference(nodes, view, key)

\* MergeEngine::is_ancestor (merge_engine.cpp 338-370): both hashes are looked
\* up by their 32 raw bytes; the loaded nodes have no parents, so the search
\* from the descendant visits that node alone
is_ancestor(nodes, view, ancestor, descendant) ==
    LET a == get_commit(nodes, view, RawBytes(ancestor))
        d == get_commit(nodes, view, RawBytes(descendant))
    IN a # NoNode /\ d # NoNode /\ a = d

\* MergeEngine::find_merge_base (merge_engine.cpp 97-135)
find_merge_base(nodes, view, commit1, commit2) ==
    LET n1 == get_commit(nodes, view, RawBytes(commit1))
        n2 == get_commit(nodes, view, RawBytes(commit2))
    IN IF n1 = NoNode \/ n2 = NoNode THEN NoNode
       ELSE IF n1 = n2 THEN n2 ELSE NoNode

MergeFailed(msg) ==
    [op |-> "merge", success |-> FALSE, fast_forward |-> FALSE, conflicts |-> 0,
     hash |-> svcs_hash_init, error |-> msg]

\* MergeEngine(repo).merge_branches(source, target)
merge_branches(source, target, stamp, out) ==
    /\ pc = "idle"
    /\ \E view \in RefViews :
       LET nodes == load_from_repository(view)
           src == resolve_reference(nodes, view, [branch |-> source])
           tgt == resolve_reference(nodes, view, [branch |-> target])
       IN IF src = NoNode \/ tgt = NoNode
          THEN /\ out = "ok"
               /\ last' = MergeFailed("Branch not found")
               /\ UNCHANGED <<objects, refs, pc, cc, faults>>
          ELSE IF is_ancestor(nodes, view, tgt.hex, src.hex)
          THEN \* fast_forward_merge (merge_engine.cpp 50-83)
               /\ Inject(<<out>>)
               /\ \E w \in svcs_file_write(refs[target], RefFile(src.hex), out) :
                     /\ refs' = IF out = "open_fail" THEN refs
                                ELSE (target :> w.file) @@ refs
                     /\ last' = IF w.res = "OK"
                                THEN [op |-> "merge", success |-> TRUE,
                                      fast_forward |-> TRUE, conflicts |-> 0,
                                      hash |-> src.hex, error |-> ""]
                                ELSE MergeFailed("Failed to update branch reference")
               /\ UNCHANGED <<objects, pc, cc>>
          ELSE IF find_merge_base(nodes, view, src.hex, tgt.hex) = NoNode
          THEN /\ out = "ok"
               /\ last' = MergeFailed("No common ancestor found")
               /\ UNCHANGED <<objects, refs, pc, cc, faults>>
          ELSE \* perform_recursive_merge (merge_engine.cpp 226-318):
               \* get_file_tree yields no files, so nothing conflicts, nothing
               \* is written to the working tree and the merge commit is made
               /\ CommitTreeStep("merge", stamp, out)
               /\ UNCHANGED refs
    /\ UNCHANGED <<dirs, HEAD, index, indexFile, wt, dag, tw, sess>>

\* the processes that run svcs_commit_create on the repository side by side
Sessions == {1, 2}

\* no session is inside a call
NoSessions == [i \in Sessions |-> [pc |-> "idle"]]

\* a CommitDAG after construction or clear() (dag.cpp 27-28, 270-274)
NoDag == [nodes |-> <<>>, roots |-> <<>>, heads |-> <<>>]

----------------------------------------------------------------------------
(* Sessions (repository.c) *)

\* The process holding the handle ends, at any point of a running call when
\* interrupted is TRUE, and svcs_repository_open makes a new handle: the index
\* is loaded from the index file.  A corrupt index file leaves no handle.
svcs_repository_open(interrupted) ==
    /\ pc # "closed"
    /\ interrupted = (pc # "idle")
    /\ LET l == svcs_index_load(indexFile) IN
       /\ index' = IF l.res = "OK" THEN l.entries ELSE <<>>
       /\ pc' = IF l.res = "OK" THEN "idle" ELSE "closed"
       /\ last' = [op |-> "open", res |-> l.res, interrupted |-> interrupted]
    /\ cc' = [caller |-> "none"]
    /\ UNCHANGED <<objects, refs, dirs, HEAD, indexFile, wt, faults, dag, tw, sess>>

\* svcs_repository_init followed by svcs_repository_open (repository.c 4-88)
Init ==
    /\ objects = [h \in {} |-> <<>>]
    /\ refs = [n \in {} |-> <<>>]
    /\ dirs = {}
    /\ HEAD = SymbolicHead(<<"main">>)
    /\ index = <<>>
    /\ indexFile = <<>>
    /\ wt = [p \in Paths |-> NoFile]
    /\ pc = "idle"
    /\ cc = [caller |-> "none"]
    /\ faults = 0
    /\ last = [op |-> "init", res |-> "OK"]
    /\ dag = NoDag
    /\ sess = NoSessions
    /\ tw = [op |-> "none"]

BranchHashes == CommitHashes(objects) \cup {FakeHash}

\* the calls with every file operation succeeding
Next ==
    \/ \E p \in CommitPaths, f \in Files(0) \cup {NoFile} : WorkTreeWrite(p, f)
    \/ \E p \in CommitPaths : svcs_index_add(p, "ok", "ok")
    \/ \E p \in CommitPaths : svcs_index_remove(p, "ok")
    \/ \E s \in 1..MaxStamp : svcs_commit_create(s, "ok")
    \/ commit_write_object("ok")
    \/ commit_update_ref("ok")
    \/ \E n \in Names, h \in BranchHashes : svcs_branch_create(n, h, "ok")
    \/ \E n \in Names : svcs_branch_checkout(n, "ok")
    \/ \E n \in Names : svcs_branch_delete(n, "ok")
    \/ \E a, b \in Names, s \in 1..MaxStamp : merge_branches(a, b, s, "ok")
    \/ \E t \in {"blob", "tag"} : object_write(t, 0, "ok")
    \/ svcs_repository_open(FALSE)

Spec == Init /\ [][Next]_vars

\* commits and merges whose file operations can fail and which can be
\* interrupted between two steps, among the other calls
NextF ==
    \/ \E p \in CommitPaths, f \in Files(0) \cup {NoFile} : WorkTreeWrite(p, f)
    \/ \E p \in CommitPaths : svcs_index_add(p, "ok", "ok")
    \/ \E p \in CommitPaths : svcs_index_remove(p, "ok")
    \/ \E s \in 1..MaxStamp, o \in ObjectWriteOutcomes : svcs_commit_create(s, o)
    \/ \E o \in ObjectWriteOutcomes : commit_write_object(o)
    \/ \E o \in FileWriteOutcomes : commit_update_ref(o)
    \/ \E n \in FaultNames, h \in CommitHashes(objects) :
          svcs_branch_create(n, h, "ok")
    \/ \E n \in FaultNames : svcs_branch_checkout(n, "ok")
    \/ \E n \in FaultNames : svcs_branch_delete(n, "ok")
    \/ \E a, b \in FaultNames, s \in 1..MaxStamp, o \in FileWriteOutcomes :
          merge_branches(a, b, s, o)
    \/ \E i \in BOOLEAN : svcs_repository_open(i)

SpecF == Init /\ [][NextF]_vars

\* the index of one handle: files edited, added and removed, saves that can fail
NextIndex ==
    \/ \E p \in Paths, f \in Files(MaxData) \cup {NoFile} : WorkTreeWrite(p, f)
    \/ \E p \in Paths, o1 \in ObjectWriteOutcomes, o2 \in FileWriteOutcomes :
          svcs_index_add(p, o1, o2)
    \/ \E p \in Paths, o \in FileWriteOutcomes : svcs_index_remove(p, o)

SpecIndex == Init /\ [][NextIndex]_vars

\* the object store used directly and through the index
NextObjects ==
    \/ \E p \in Paths, f \in Files(MaxData) \cup {NoFile} : WorkTreeWrite(p, f)
    \/ \E p \in Paths, o1 \in ObjectWriteOutcomes : svcs_index_add(p, o1, "ok")
    \/ \E t \in Types, d \in 0..MaxData, o \in ObjectWriteOutcomes :
          object_write(t, d, o)

SpecObjects == Init /\ [][NextObjects]_vars

----------------------------------------------------------------------------
(* Commit graph (dag.cpp): the nodes keyed by hex hash, each with the keys of
   its parents and of its children, and the lists roots and heads *)

MaxNodes == 3       \* hashes a caller of add_commit uses
MaxParents == 2     \* length of the parent list of an add_commit

\* hashes as the tests make them (memset of one byte value)
DagHashes == {[id |-> i] : i \in 1..MaxNodes}

ParentLists == UNION {[1..n -> DagHashes] : n \in 0..MaxParents}

Perms(S) == {f \in [1..Cardinality(S) -> S] : {f[i] : i \in DOMAIN f} = S}

Occurrences(seq, x) == Cardinality({i \in DOMAIN seq : seq[i] = x})

\* std::find and erase (dag.cpp 116-119): drop the first occurrence of x
EraseFirst(seq, x) ==
    IF \E i \in DOMAIN seq : seq[i] = x
    THEN LET i == CHOOSE i \in DOMAIN seq :
                    seq[i] = x /\ \A j \in 1..(i - 1) : seq[j] # x
         IN SubSeq(seq, 1, i - 1) \o SubSeq(seq, i + 1, Len(seq))
    ELSE seq

RECURSIVE EraseEach(_, _)
\* dag.cpp 115-120: every linked parent leaves the heads
EraseEach(seq, xs) ==
    IF xs = <<>> THEN seq ELSE EraseEach(EraseFirst(seq, Head(xs)), Tail(xs))

\* an add_commit that records every listed parent, in the table or not
AddCommitAllParents(d, hash, parent_hashes) ==
    LET k == svcs_hash_to_string(hash) IN
    IF k \in DOMAIN d.nodes THEN d
    ELSE LET ps == [i \in DOMAIN parent_hashes |->
                       svcs_hash_to_string(parent_hashes[i])]
             old == [x \in DOMAIN d.nodes |->
                        [d.nodes[x] EXCEPT !.children =
                            @ \o [i \in 1..Occurrences(ps, x) |-> k]]]
         IN [nodes |-> (k :> [parents |-> ps, children |-> <<>>]) @@ old,
             roots |-> IF ps = <<>> THEN Append(d.roots, k) ELSE d.roots,
             heads |-> Append(EraseEach(d.heads, ps), k)]

\* an add_commit that enters the node in the table before it links the
\* parents, so that a commit naming itself as parent is linked to itself
AddCommitSelfLinked(d, hash, parent_hashes) ==
    LET k == svcs_hash_to_string(hash) IN
    IF k \in DOMAIN d.nodes THEN d
    ELSE LET known == DOMAIN d.nodes \cup {k}
             ps == SelectSeq([i \in DOMAIN parent_hashes |->
                                svcs_hash_to_string(parent_hashes[i])],
                             LAMBDA x : x \in known)
             old == [x \in DOMAIN d.nodes |->
                        [d.nodes[x] EXCEPT !.children =
                            @ \o [i \in 1..Occurrences(ps, x) |-> k]]]
             new == [parents |-> ps,
                     children |-> [i \in 1..Occurrences(ps, k) |-> k]]
         IN [nodes |-> (k :> new) @@ old,
             roots |-> IF ps = <<>> THEN Append(d.roots, k) ELSE d.roots,
             heads |-> IF new.children = <<>>
                       THEN Append(EraseEach(d.heads, ps), k)
                       ELSE EraseEach(d.heads, ps)]

\* CommitDAG::add_commit (dag.cpp 77-128): the graph afterwards
AddCommit(d, hash, parent_hashes) ==
    LET k == svcs_hash_to_string(hash) IN
    IF k \in DOMAIN d.nodes THEN d
    ELSE LET ps == SelectSeq([i \in DOMAIN parent_hashes |->
                                svcs_hash_to_string(parent_hashes[i])],
                             LAMBDA x : x \in DOMAIN d.nodes)
             old == [x \in DOMAIN d.nodes |->
                        [d.nodes[x] EXCEPT !.children =
                            @ \o [i \in 1..Occurrences(ps, x) |-> k]]]
         IN [nodes |-> (k :> [parents |-> ps, children |-> <<>>]) @@ old,
             roots |-> IF ps = <<>> THEN Append(d.roots, k) ELSE d.roots,
             heads |-> Append(EraseEach(d.heads, ps), k)]

\* CommitDAG::load_commit_chain (dag.cpp 340-367): one node for the tip,
\* without parents, entered in heads
load_commit_chain(d, start_hash) ==
    LET k == svcs_hash_to_string(start_hash) IN
    IF k \in DOMAIN d.nodes THEN d
    ELSE [nodes |-> (k :> [parents |-> <<>>, children |-> <<>>]) @@ d.nodes,
          roots |-> d.roots,
          heads |-> Append(d.heads, k)]

RECURSIVE LoadChains(_, _)
\* dag.cpp 48-69: the entries of refs/heads in the order readdir gives them
LoadChains(d, tips) ==
    IF tips = <<>> THEN d
    ELSE LoadChains(IF Head(tips) = {} THEN d
                    ELSE load_commit_chain(d, CHOOSE h \in Head(tips) : TRUE),
                    Tail(tips))

RECURSIVE RelaxEager(_, _)
\* a loop over the children that queues a child at every decrement
RelaxEager(children, st) ==
    IF children = <<>> THEN st
    ELSE LET c == Head(children) IN
         RelaxEager(Tail(children),
                    [indeg |-> [st.indeg EXCEPT ![c] = @ - 1],
                     queue |-> Append(st.queue, c)])

RECURSIVE Relax(_, _)
\* dag.cpp 211-219: the in-degree of every child goes down by one, and a
\* child whose in-degree reaches zero is queued
Relax(children, st) ==
    IF children = <<>> THEN st
    ELSE LET c == Head(children)
             n == st.indeg[c] - 1
         IN Relax(Tail(children),
                  [indeg |-> [st.indeg EXCEPT ![c] = n],
                   queue |-> IF n = 0 THEN Append(st.queue, c) ELSE st.queue])

RECURSIVE Kahn(_, _, _)
\* dag.cpp 205-220
Kahn(d, st, result) ==
    IF st.queue = <<>> THEN result
    ELSE LET current == Head(st.queue) IN
         Kahn(d,
              Relax(d.nodes[current].children,
                    [indeg |-> st.indeg, queue |-> Tail(st.queue)]),
              Append(result, current))

\* CommitDAG::topological_sort (dag.cpp 191-223); order is the order in which
\* the unordered_map yields its nodes
topological_sort(d, order) ==
    LET in_degree == [k \in DOMAIN d.nodes |-> Len(d.nodes[k].parents)]
        queue == SelectSeq(order, LAMBDA k : in_degree[k] = 0)
    IN Kahn(d, [indeg |-> in_degree, queue |-> queue], <<>>)

add_commit(hash, parent_hashes) ==
    /\ pc = "idle"
    /\ dag' = AddCommit(dag, hash, parent_hashes)
    /\ last' = [op |-> "add_commit", hash |-> hash,
                self |-> \E i \in DOMAIN parent_hashes : parent_hashes[i] = hash,
                added |-> svcs_hash_to_string(hash) \notin DOMAIN dag.nodes,
                missing |-> \E i \in DOMAIN parent_hashes :
                    /\ parent_hashes[i] # hash
                    /\ svcs_hash_to_string(parent_hashes[i]) \notin DOMAIN dag.nodes]
    /\ UNCHANGED <<objects, refs, dirs, HEAD, index, indexFile, wt, pc, cc, faults,
                   tw, sess>>

\* CommitDAG::load_from_repository (dag.cpp 30-75) on the dag object
CommitDAG_load_from_repository ==
    /\ pc = "idle"
    /\ IF <<>> \notin dirs
       THEN dag' = NoDag
       ELSE \E view \in RefViews :
            \E order \in Perms({n \in DOMAIN refs : Len(n) = 1}) :
               dag' = LoadChains(NoDag, [i \in DOMAIN order |-> view[order[i]]])
    /\ last' = [op |-> "load"]
    /\ UNCHANGED <<objects, refs, dirs, HEAD, index, indexFile, wt, pc, cc, faults,
                   tw, sess>>

\* a graph object built by add_commit and load_from_repository over the
\* branches of a repository
NextDAG ==
    \/ \E n \in FaultNames, h \in DagHashes : svcs_branch_create(n, h, "ok")
    \/ \E h \in DagHashes, ps \in ParentLists : add_commit(h, ps)
    \/ CommitDAG_load_from_repository

SpecDAG == Init /\ [][NextDAG]_vars

----------------------------------------------------------------------------
(* Commit ranges (dag.cpp) *)

MaxCount == 2        \* the limits a range can ask for are 1..MaxCount

TraversalOrders == {"CHRONOLOGICAL", "TOPOLOGICAL", "DEPTH_FIRST", "BREADTH_FIRST"}

\* CommitRange with start_commit and end_commit empty; max_count -1 is no limit
CommitRanges ==
    [include_merges : BOOLEAN, max_count : {-1} \cup 1..MaxCount,
     order : TraversalOrders]

\* the time of the commit with a given key: the commits of odd and of even
\* number were made in different seconds
TimestampOf(k) == k.hex.id % 2

is_merge_commit(d, k) == Len(d.nodes[k].parents) > 1

\* std::sort with a->timestamp > b->timestamp: newest first, commits of the
\* same second in any order
SortedNewestFirst(S) ==
    {s \in Perms(S) :
        \A i, j \in 1..Len(s) : i < j => TimestampOf(s[i]) >= TimestampOf(s[j])}

RECURSIVE Walk(_, _, _, _)
\* a traversal over child edges that visits every node it reaches once; the
\* nodes waiting are taken from the front, new ones are put at the front
\* (depth first) or at the back (breadth first)
Walk(d, waiting, result, depthFirst) ==
    IF waiting = <<>> THEN result
    ELSE LET k == Head(waiting) IN
         IF \E i \in DOMAIN result : result[i] = k
         THEN Walk(d, Tail(waiting), result, depthFirst)
         ELSE Walk(d,
                   IF depthFirst THEN d.nodes[k].children \o Tail(waiting)
                   ELSE Tail(waiting) \o d.nodes[k].children,
                   Append(result, k), depthFirst)

\* dfs_traversal and bfs_traversal with no start commit: from the roots
dfs_traversal(d) == Walk(d, d.roots, <<>>, TRUE)
bfs_traversal(d) == Walk(d, d.roots, <<>>, FALSE)

\* dag.cpp 182-185
ApplyCountLimit(commits, max_count) ==
    IF max_count > 0 /\ Len(commits) > max_count
    THEN SubSeq(commits, 1, max_count)
    ELSE commits

\* CommitDAG::get_commits_in_range (dag.cpp 141-189): the vectors it can
\* return, by the order in which the node table is walked and equal times
\* are sorted
get_commits_in_range(d, range) ==
    LET all == DOMAIN d.nodes
        kept == IF range.include_merges THEN all
                ELSE {k \in all : ~is_merge_commit(d, k)}
        sorted ==
            CASE range.order = "CHRONOLOGICAL" -> SortedNewestFirst(kept)
              [] range.order = "TOPOLOGICAL" ->
                    {topological_sort(d, walk) : walk \in Perms(all)}
              [] range.order = "DEPTH_FIRST" -> {dfs_traversal(d)}
              [] range.order = "BREADTH_FIRST" -> {bfs_traversal(d)}
    IN {ApplyCountLimit(c, range.max_count) : c \in sorted}

\* one call of get_commits_in_range on the dag object
CommitDAG_get_commits_in_range(range) ==
    /\ pc = "idle"
    /\ \E r \in get_commits_in_range(dag, range) :
          last' = [op |-> "range", range |-> range, result |-> r]
    /\ UNCHANGED <<objects, refs, dirs, HEAD, index, indexFile, wt, pc, cc, faults,
                   dag, tw, sess>>

\* a graph object built by add_commit and asked for ranges of commits
NextRange ==
    \/ \E h \in DagHashes, ps \in ParentLists : add_commit(h, ps)
    \/ \E range \in CommitRanges : CommitDAG_get_commits_in_range(range)

SpecRange == Init /\ [][NextRange]_vars

----------------------------------------------------------------------------
(* Resolving a reference string (dag.cpp) *)

\* the hex string of a hash, two digits long in place of 64
HexString(h) == <<h.id \div 2, h.id % 2>>

IsPrefix(p, str) == Len(p) <= Len(str) /\ SubSeq(str, 1, Len(p)) = p

\* the strings handed to resolve_reference: branch names, full hex strings
\* and shorter runs of hex digits
RefStrings ==
    {[branch |-> n] : n \in FaultNames}
        \cup {[digits |-> d] :
                d \in UNION {[1..n -> 0..(MaxNodes \div 2)] : n \in 0..2}}

\* dag.cpp 327-332: the first node, in the order the table is walked, whose
\* hex string starts with ref
FirstPrefixMatch(walk, ref) ==
    LET hits == SelectSeq(walk, LAMBDA k : IsPrefix(ref.digits, HexString(k.hex)))
    IN IF hits = <<>> THEN NoNode ELSE Head(hits)

\* CommitDAG::resolve_reference on a string: the node of the branch file of
\* that name, then the partial hash match
ResolveString(d, view, ref, walk) ==
    IF "branch" \in DOMAIN ref
    THEN resolve_reference(DOMAIN d.nodes, view, ref)
    ELSE FirstPrefixMatch(walk, ref)

\* one call of resolve_reference on the dag object
CommitDAG_resolve_reference(ref) ==
    /\ pc = "idle"
    /\ \E view \in RefViews : \E walk \in Perms(DOMAIN dag.nodes) :
          last' = [op |-> "resolve", ref |-> ref,
                   result |-> ResolveString(dag, view, ref, walk)]
    /\ UNCHANGED <<objects, refs, dirs, HEAD, index, indexFile, wt, pc, cc, faults,
                   dag, tw, sess>>

\* branches created, commits entered in the graph, references resolved
NextResolve ==
    \/ \E n \in FaultNames, h \in DagHashes : svcs_branch_create(n, h, "ok")
    \/ \E h \in DagHashes : add_commit(h, <<>>)
    \/ \E ref \in RefStrings : CommitDAG_resolve_reference(ref)

SpecResolve == Init /\ [][NextResolve]_vars

----------------------------------------------------------------------------
(* Detached HEAD *)

\* HEAD is made to hold the hash of a commit directly, as the repository
\* format allows; no call of the core writes such a HEAD
DetachHead(h) ==
    /\ pc = "idle"
    /\ HEAD # RefFile(h)
    /\ HEAD' = RefFile(h)
    /\ last' = [op |-> "detach"]
    /\ UNCHANGED <<objects, refs, dirs, index, indexFile, wt, pc, cc, faults,
                   dag, tw, sess>>

\* commits with HEAD symbolic or detached
NextDetached ==
    \/ \E p \in CommitPaths, f \in Files(0) \cup {NoFile} : WorkTreeWrite(p, f)
    \/ \E p \in CommitPaths : svcs_index_add(p, "ok", "ok")
    \/ \E s \in 1..MaxStamp : svcs_commit_create(s, "ok")
    \/ commit_write_object("ok")
    \/ commit_update_ref("ok")
    \/ \E h \in CommitHashes(objects) : DetachHead(h)
    \/ \E n \in FaultNames : svcs_branch_checkout(n, "ok")

SpecDetached == Init /\ [][NextDetached]_vars

----------------------------------------------------------------------------
(* Merging one branch into the current one *)

\* the branch that is merged (theirs) and the branch it is merged into (ours)
MergeSource == <<"dev">>
MergeTarget == <<"main">>

\* commits on two branches and merges of dev into main
NextMerge ==
    \/ \E p \in CommitPaths, f \in Files(0) \cup {NoFile} : WorkTreeWrite(p, f)
    \/ \E p \in CommitPaths : svcs_index_add(p, "ok", "ok")
    \/ \E s \in 1..MaxStamp : svcs_commit_create(s, "ok")
    \/ commit_write_object("ok")
    \/ commit_update_ref("ok")
    \/ \E n \in FaultNames, h \in CommitHashes(objects) :
          svcs_branch_create(n, h, "ok")
    \/ \E n \in FaultNames : svcs_branch_checkout(n, "ok")
    \/ \E s \in 1..MaxStamp : merge_branches(MergeSource, MergeTarget, s, "ok")

SpecMerge == Init /\ [][NextMerge]_vars

----------------------------------------------------------------------------
(* Merging branches that have diverged *)

MaxDiverged == 3     \* commit objects in the store of a diverged history
MaxMergeData == 2    \* file contents are 0..MaxMergeData

\* svcs_commit_create in a history of up to MaxDiverged commits
svcs_commit_create_diverged(stamp) ==
    /\ pc = "idle"
    /\ CommitTreeStepWithin(MaxDiverged, "commit", stamp, "ok")
    /\ UNCHANGED <<refs, dirs, HEAD, index, indexFile, wt, dag, tw, sess>>

\* commits on two branches, each with its own content of the file, and merges
\* of dev into main
NextDiverged ==
    \/ \E p \in CommitPaths, f \in Files(MaxMergeData) : WorkTreeWrite(p, f)
    \/ \E p \in CommitPaths : svcs_index_add(p, "ok", "ok")
    \/ \E s \in 1..MaxStamp : svcs_commit_create_diverged(s)
    \/ commit_write_object("ok")
    \/ commit_update_ref("ok")
    \/ \E n \in FaultNames, h \in CommitHashes(objects) :
          svcs_branch_create(n, h, "ok")
    \/ \E n \in FaultNames : svcs_branch_checkout(n, "ok")
    \/ \E s \in 1..MaxStamp : merge_branches(MergeSource, MergeTarget, s, "ok")

SpecDiverged == Init /\ [][NextDiverged]_vars

----------------------------------------------------------------------------
(* Three-way merge of line sequences (merge_engine.cpp) *)

MaxLine == 2
MaxLen == 2

\* a line is the sequence of its characters; the empty line is among them
Lines == {<<>>} \cup {<<[ch |-> i]>> : i \in 1..MaxLine}
LineSeqs == UNION {[1..n -> Lines] : n \in 0..MaxLen}

ConflictStart == <<[marker |-> "<<<<<<< HEAD"]>>
ConflictMiddle == <<[marker |-> "======="]>>
ConflictEnd == <<[marker |-> ">>>>>>> branch"]>>

RECURSIVE join_lines(_)
\* the lines with a newline between each two of them
join_lines(lines) ==
    IF lines = <<>> THEN <<>>
    ELSE IF Len(lines) = 1 THEN lines[1]
    ELSE lines[1] \o <<[nl |-> TRUE]>> \o join_lines(Tail(lines))

\* the lines of seq from index idx (counted from 0) on, at most one of them
ConflictLines(seq, idx) == IF idx < Len(seq) THEN <<seq[idx + 1]>> ELSE <<>>

RECURSIVE MergeLoopOneCursor(_, _, _, _, _, _, _)
\* a merge loop that reports each leftover line as a conflict of its own and
\* moves one cursor at a time
MergeLoopOneCursor(base_lines, our_lines, their_lines, base_idx, our_idx, their_idx, r) ==
    IF ~(base_idx < Len(base_lines) \/ our_idx < Len(our_lines)
            \/ their_idx < Len(their_lines))
    THEN r
    ELSE LET r2 == [r EXCEPT !.iterations = @ + 1,
                             !.conflicts = @ + 1,
                             !.has_conflicts = TRUE]
         IN IF our_idx < Len(our_lines)
            THEN MergeLoopOneCursor(base_lines, our_lines, their_lines,
                                    base_idx, our_idx + 1, their_idx, r2)
            ELSE IF their_idx < Len(their_lines)
            THEN MergeLoopOneCursor(base_lines, our_lines, their_lines,
                                    base_idx, our_idx, their_idx + 1, r2)
            ELSE MergeLoopOneCursor(base_lines, our_lines, their_lines,
                                    base_idx + 1, our_idx, their_idx, r2)

RECURSIVE MergeLoop(_, _, _, _, _, _, _)
\* the while loop of three_way_merge_lines
MergeLoop(base_lines, our_lines, their_lines, base_idx, our_idx, their_idx, r) ==
    IF ~(base_idx < Len(base_lines) \/ our_idx < Len(our_lines)
            \/ their_idx < Len(their_lines))
    THEN r
    ELSE
      LET inB == base_idx < Len(base_lines)
          inO == our_idx < Len(our_lines)
          inT == their_idx < Len(their_lines)
          b == base_lines[base_idx + 1]
          o == our_lines[our_idx + 1]
          t == their_lines[their_idx + 1]
          step(r2) == MergeLoop(base_lines, our_lines, their_lines,
                                base_idx + 1, our_idx + 1, their_idx + 1,
                                [r2 EXCEPT !.iterations = @ + 1])
      IN  IF inB /\ inO /\ inT /\ b = o /\ o = t
          THEN step([r EXCEPT !.merged_lines = Append(@, o)])
          ELSE IF inB /\ inO /\ b = o /\ inT
          THEN step([r EXCEPT !.merged_lines = Append(@, t)])
          ELSE IF inB /\ inT /\ b = t /\ inO
          THEN step([r EXCEPT !.merged_lines = Append(@, o)])
          ELSE step([r EXCEPT
                   !.conflicts = @ + 1,
                   !.has_conflicts = TRUE,
                   !.merged_lines =
                       @ \o <<ConflictStart>> \o ConflictLines(our_lines, our_idx)
                         \o <<ConflictMiddle>>
                         \o ConflictLines(their_lines, their_idx)
                         \o <<ConflictEnd>>])

three_way_merge_lines(base_lines, our_lines, their_lines) ==
    LET r == MergeLoop(base_lines, our_lines, their_lines, 0, 0, 0,
                 [merged_lines |-> <<>>, has_conflicts |-> FALSE, conflicts |-> 0,
                  iterations |-> 0])
    IN  [merged_content |-> join_lines(r.merged_lines),
         has_conflicts |-> r.has_conflicts,
         conflicts |-> r.conflicts,
         success |-> TRUE]

\* the number of times the loop of three_way_merge_lines runs
MergeIterations(base_lines, our_lines, their_lines) ==
    MergeLoop(base_lines, our_lines, their_lines, 0, 0, 0,
              [merged_lines |-> <<>>, has_conflicts |-> FALSE, conflicts |-> 0,
               iterations |-> 0]).iterations

\* a handle on an empty repository and the three line sequences of one call
InitThreeWay ==
    /\ objects = [h \in {} |-> <<>>]
    /\ refs = [n \in {} |-> <<>>]
    /\ dirs = {}
    /\ HEAD = SymbolicHead(<<"main">>)
    /\ index = <<>>
    /\ indexFile = <<>>
    /\ wt = [p \in Paths |-> NoFile]
    /\ pc = "idle"
    /\ cc = [caller |-> "none"]
    /\ faults = 0
    /\ last = [op |-> "init", res |-> "OK"]
    /\ dag = NoDag
    /\ sess = NoSessions
    /\ tw \in [op : {"input"}, base : LineSeqs, ours : LineSeqs,
               theirs : LineSeqs]

\* the call of three_way_merge_lines on the three sequences
ThreeWayMerge ==
    /\ tw.op = "input"
    /\ tw' = [op |-> "merge3", base |-> tw.base, ours |-> tw.ours,
              theirs |-> tw.theirs,
              result |-> three_way_merge_lines(tw.base, tw.ours, tw.theirs),
              iterations |-> MergeIterations(tw.base, tw.ours, tw.theirs)]
    /\ UNCHANGED <<objects, refs, dirs, HEAD, index, indexFile, wt, pc, cc,
                   faults, last, dag, sess>>

NextThreeWay == ThreeWayMerge

SpecThreeWay == InitThreeWay /\ [][NextThreeWay]_vars

----------------------------------------------------------------------------
(* Two sessions that commit on the same branch, their file operations
   interleaved.  Each session is a process with its own handle; the commits
   are of the empty index. *)

\* fwrite and fclose on a file opened before: the bytes go to the start of
\* the file as it is now
Overwrite(cur, data) == data \o SubSeq(cur, Len(data) + 1, Len(cur))

\* commit.c 73-105: the session starts a commit and reads the parent through
\* HEAD
session_read_parent(i) ==
    /\ sess[i].pc = "idle"
    /\ Cardinality(CommitHashes(objects)) < MaxCommits
    /\ \E b \in HeadBranch(HEAD) : \E parent \in ParentHashes(b) :
          sess' = [sess EXCEPT ![i] = [pc |-> "object", branch |-> b,
                                       parent |-> parent]]
    /\ last' = [op |-> "session_step", session |-> i]
    /\ UNCHANGED <<objects, refs, dirs, HEAD, index, indexFile, wt, pc, cc,
                   faults, dag, tw>>

\* commit.c 107-165: the session builds, hashes and writes its commit
session_write_object(i) ==
    /\ sess[i].pc = "object"
    /\ LET content == CommitContent(svcs_hash_init, sess[i].parent, i)
           h == svcs_hash_object("commit", content, CommitSize(content))
       IN /\ objects' = svcs_object_write(objects, h, "commit",
                                          CommitSize(content), "ok").objs
          /\ sess' = [sess EXCEPT ![i] = [pc |-> "ref", branch |-> @.branch,
                                          hash |-> h]]
    /\ last' = [op |-> "session_step", session |-> i]
    /\ UNCHANGED <<refs, dirs, HEAD, index, indexFile, wt, pc, cc, faults,
                   dag, tw>>

\* commit.c 183-194, utils.c 49: fopen(ref_path, "wb") empties the ref file
session_open_ref(i) ==
    /\ sess[i].pc = "ref"
    /\ sess[i].branch # NoBranch
    /\ dirs' = MkdirRecursive(dirs, ParentDir(sess[i].branch))
    /\ refs' = (sess[i].branch :> <<>>) @@ refs
    /\ sess' = [sess EXCEPT ![i] = [pc |-> "ref_open", branch |-> @.branch,
                                    hash |-> @.hash]]
    /\ last' = [op |-> "session_step", session |-> i]
    /\ UNCHANGED <<objects, HEAD, index, indexFile, wt, pc, cc, faults, dag, tw>>

\* utils.c 54-55: fwrite and fclose put the hash and the newline in the file;
\* svcs_commit_create returns
session_write_ref(i) ==
    /\ sess[i].pc = "ref_open"
    /\ refs' = (sess[i].branch :>
                   Overwrite(refs[sess[i].branch], RefFile(sess[i].hash))) @@ refs
    /\ sess' = [sess EXCEPT ![i] = [pc |-> "idle"]]
    /\ last' = [op |-> "ref_write", session |-> i, branch |-> sess[i].branch,
                hash |-> sess[i].hash]
    /\ UNCHANGED <<objects, dirs, HEAD, index, indexFile, wt, pc, cc, faults,
                   dag, tw>>

NextConcurrent ==
    \E i \in Sessions :
        \/ session_read_parent(i)
        \/ session_write_object(i)
        \/ session_open_ref(i)
        \/ session_write_ref(i)

SpecConcurrent == Init /\ [][NextConcurrent]_vars

----------------------------------------------------------------------------
(* Index status (index.c) *)

MaxMtime == 2        \* modification times are 1..MaxMtime

\* the files of a working tree whose files are rewritten at several times
StatusFiles == [data : 0..MaxData, mtime : 1..MaxMtime, mode : {"100644"}]

\* a status that compares the hashes whatever the modification time is
StatusOfHashOnly(entry) ==
    IF wt[entry.path] = NoFile THEN "DELETED"
    ELSE IF svcs_hash_file(wt[entry.path]) # entry.hash THEN "MODIFIED"
    ELSE entry.status

\* index.c 243-256: the status reported for one index entry
StatusOf(entry) ==
    IF wt[entry.path] = NoFile THEN "DELETED"
    ELSE IF wt[entry.path].mtime # entry.mtime
    THEN IF svcs_hash_file(wt[entry.path]) # entry.hash THEN "MODIFIED"
         ELSE entry.status
    ELSE entry.status

\* svcs_index_status: a copy of the entries with their status recomputed
svcs_index_status ==
    /\ pc = "idle"
    /\ last' = [op |-> "index_status", res |-> "OK",
                entries |-> [i \in 1..Len(index) |->
                                [index[i] EXCEPT !.status = StatusOf(index[i])]]]
    /\ UNCHANGED <<objects, refs, dirs, HEAD, index, indexFile, wt, pc, cc,
                   faults, dag, tw, sess>>

\* files edited, added and removed, and the status asked for
NextStatus ==
    \/ \E p \in Paths, f \in StatusFiles \cup {NoFile} : WorkTreeWrite(p, f)
    \/ \E p \in Paths : svcs_index_add(p, "ok", "ok")
    \/ \E p \in Paths : svcs_index_remove(p, "ok")
    \/ svcs_index_status

SpecStatus == Init /\ [][NextStatus]_vars

----------------------------------------------------------------------------
(* Line diff (diff.c) *)

\* sizeof(svcs_diff_line_t.content)
DiffContentSize == 1024

\* a line is its text and its length in bytes: short lines and lines that do
\* not fit the content buffer of a diff line
DiffLines ==
    [id : 1..MaxLine, len : {1, DiffContentSize - 1, DiffContentSize}]
DiffLineSeqs == UNION {[1..n -> DiffLines] : n \in 0..MaxLen}

\* strncpy(content, line, sizeof(content) - 1) into the zeroed buffer
CopyContent(line) ==
    IF line.len <= DiffContentSize - 1 THEN line
    ELSE [id |-> line.id, len |-> DiffContentSize - 1]

DiffLine(type, old_line, new_line, line) ==
    [type |-> type, old_line |-> old_line, new_line |-> new_line,
     content |-> CopyContent(line)]

RECURSIVE DiffLoop(_, _, _, _, _)
\* the while loop of compute_diff_lines; line_idx is Len(lines)
DiffLoop(old_lines, new_lines, old_idx, new_idx, lines) ==
    LET old_count == Len(old_lines)
        new_count == Len(new_lines)
        max_lines == old_count + new_count
        \* the line_idx++ and the break that end an iteration
        next(o, n, ls) == IF Len(ls) >= max_lines THEN ls
                          ELSE DiffLoop(old_lines, new_lines, o, n, ls)
    IN  IF ~(old_idx < old_count \/ new_idx < new_count) THEN lines
        ELSE IF old_idx < old_count /\ new_idx < new_count
        THEN IF old_lines[old_idx + 1] = new_lines[new_idx + 1]
             THEN next(old_idx + 1, new_idx + 1,
                       Append(lines, DiffLine("CONTEXT", old_idx + 1, new_idx + 1,
                                              old_lines[old_idx + 1])))
             ELSE LET del == Append(lines, DiffLine("DEL", old_idx + 1, -1,
                                                    old_lines[old_idx + 1]))
                  IN IF Len(del) < max_lines
                     THEN next(old_idx + 1, new_idx + 1,
                               Append(del, DiffLine("ADD", -1, new_idx + 1,
                                                    new_lines[new_idx + 1])))
                     ELSE next(old_idx + 1, new_idx, del)
        ELSE IF old_idx < old_count
        THEN next(old_idx + 1, new_idx,
                  Append(lines, DiffLine("DEL", old_idx + 1, -1,
                                         old_lines[old_idx + 1])))
        ELSE next(old_idx, new_idx + 1,
                  Append(lines, DiffLine("ADD", -1, new_idx + 1,
                                         new_lines[new_idx + 1])))

\* compute_diff_lines: zeroAlloc is what calloc returns for a request of zero
\* elements, a pointer or NULL
compute_diff_lines(old_lines, new_lines, zeroAlloc) ==
    IF Len(old_lines) + Len(new_lines) = 0 /\ zeroAlloc = "null"
    THEN [res |-> "MEMORY"]
    ELSE [res |-> "OK",
          hunk |-> [old_start |-> 1, old_count |-> Len(old_lines),
                    new_start |-> 1, new_count |-> Len(new_lines),
                    lines |-> DiffLoop(old_lines, new_lines, 0, 0, <<>>)]]

\* a handle on an empty repository and the two line arrays of one call
InitDiff ==
    /\ objects = [h \in {} |-> <<>>]
    /\ refs = [n \in {} |-> <<>>]
    /\ dirs = {}
    /\ HEAD = SymbolicHead(<<"main">>)
    /\ index = <<>>
    /\ indexFile = <<>>
    /\ wt = [p \in Paths |-> NoFile]
    /\ pc = "idle"
    /\ cc = [caller |-> "none"]
    /\ faults = 0
    /\ last = [op |-> "init", res |-> "OK"]
    /\ dag = NoDag
    /\ sess = NoSessions
    /\ tw \in [op : {"diff_input"}, old : DiffLineSeqs, new : DiffLineSeqs,
               zeroAlloc : {"pointer", "null"}]

\* the call of compute_diff_lines on the two arrays
ComputeDiff ==
    /\ tw.op = "diff_input"
    /\ tw' = [op |-> "diff", old |-> tw.old, new |-> tw.new,
              result |-> compute_diff_lines(tw.old, tw.new, tw.zeroAlloc)]
    /\ UNCHANGED <<objects, refs, dirs, HEAD, index, indexFile, wt, pc, cc,
                   faults, last, dag, sess>>

NextDiff == ComputeDiff

SpecDiff == InitDiff /\ [][NextDiff]_vars

----------------------------------------------------------------------------
(* Properties *)

\* the hashes a ref file or HEAD holds as 64 hex characters
HeldHashes(content) ==
    {content[i].hex : i \in {j \in DOMAIN content : "hex" \in DOMAIN content[j]}}

\* the tree a commit object names and the parents it names
TreeOf(h) == h.payload.tree.hex
ParentsOf(h) == {h.payload.parent[i].hex : i \in DOMAIN h.payload.parent}

\* C1: after svcs_commit_create has returned OK with HEAD naming branch B, the
\* ref file of B holds the hex form of the returned hash, and svcs_object_read
\* returns OK for that hash, for the tree the commit names and for the blob of
\* every index entry.
C1_CommitReachable ==
    (last.op = "commit" /\ last.res = "OK") =>
        \A b \in HeadBranch(HEAD) :
            /\ b \in DOMAIN refs
            /\ refs[b] = RefFile(last.hash)
            /\ svcs_object_read(objects, last.hash).res = "OK"
            /\ svcs_object_read(objects, TreeOf(last.hash)).res = "OK"
            /\ \A i \in DOMAIN index :
                  svcs_object_read(objects, index[i].hash).res = "OK"

\* C2: after svcs_object_write of an object of any type has returned OK,
\* svcs_object_read of its hash returns OK with the same type, the same size
\* and the same hash.
C2_WriteThenRead ==
    (last.op = "object_write" /\ last.res = "OK") =>
        LET r == svcs_object_read(objects, last.hash) IN
        /\ r.res = "OK"
        /\ r.type = last.type
        /\ r.size = last.size
        /\ r.hash = last.hash

C4_StoreAppendOnly ==
    [][/\ \A h \in DOMAIN objects :
             h \in DOMAIN objects' /\ objects'[h] = objects[h]
       /\ (last'.op = "object_write" /\ last'.hash \in DOMAIN objects) =>
             (last'.res = "OK" /\ objects' = objects)]_vars

\* an entry has been removed from the index and its blob is still stored,
\* beside a commit object
C4_Witness ==
    /\ last.op = "index_remove"
    /\ last.res = "OK"
    /\ index = <<>>
    /\ \E h \in DOMAIN objects : h.type = "blob"
    /\ CommitHashes(objects) # {}

\* C5: after svcs_index_add or svcs_index_remove has returned OK, loading the
\* index file gives as many entries as the handle holds in memory, and the
\* same set of entries.
C5_IndexFileMatchesMemory ==
    (last.op \in {"index_add", "index_remove"} /\ last.res = "OK") =>
        LET l == svcs_index_load(indexFile) IN
        /\ l.res = "OK"
        /\ Len(l.entries) = Len(index)
        /\ {l.entries[i] : i \in DOMAIN l.entries} = {index[i] : i \in DOMAIN index}

\* two entries are staged and saved after an earlier save had failed
C5_Witness ==
    /\ last.op = "index_add"
    /\ last.res = "OK"
    /\ Len(index) = 2
    /\ faults = 1

C7_BranchDelete ==
    [][last'.op = "branch_delete" =>
        LET n == last'.name IN
        /\ HEAD' = HEAD
        /\ IF HEAD = SymbolicHead(n)
           THEN last'.res = "INVALID" /\ refs' = refs
           ELSE IF n \notin DOMAIN refs
           THEN last'.res = "NOT_FOUND" /\ refs' = refs
           ELSE last'.res = "OK" /\ refs' = Without(refs, n)
        /\ \A b \in DOMAIN refs : HEAD = SymbolicHead(b) => b \in DOMAIN refs']_vars

\* a branch other than the current one has been deleted
C7_Witness ==
    /\ last.op = "branch_delete"
    /\ last.res = "OK"
    /\ last.name \notin DOMAIN refs
    /\ \E b \in DOMAIN refs : HEAD = SymbolicHead(b)

\* C8: svcs_branch_create of a name that has a ref file returns EXISTS and
\* leaves the file alone; of any other name, one with a directory part
\* included, it makes the missing directories and the ref file holding the
\* hex form of the hash, and returns OK.
C8_BranchCreate ==
    [][last'.op = "branch_create" =>
        LET n == last'.name IN
        IF n \in DOMAIN refs
        THEN last'.res = "EXISTS" /\ refs' = refs
        ELSE /\ last'.res = "OK"
             /\ ParentDir(n) \in dirs'
             /\ refs' = (n :> RefFile(last'.hash)) @@ refs]_vars

\* C9: svcs_branch_checkout of a branch without a ref file returns NOT_FOUND
\* and leaves HEAD alone, of any other branch it makes HEAD the symbolic
\* reference to it; it changes no ref, no object and neither the index nor
\* the index file.
C9_Checkout ==
    [][last'.op = "branch_checkout" =>
        LET n == last'.name IN
        /\ IF n \notin DOMAIN refs
           THEN last'.res = "NOT_FOUND" /\ HEAD' = HEAD
           ELSE last'.res = "OK" /\ HEAD' = SymbolicHead(n)
        /\ UNCHANGED <<refs, objects, index, indexFile>>]_vars

\* HEAD has been moved to a branch other than main
C9_Witness ==
    /\ last.op = "branch_checkout"
    /\ last.res = "OK"
    /\ HEAD = SymbolicHead(<<"dev">>)
    /\ <<"main">> \in DOMAIN refs

\* C10: every commit object in the store names a tree that has a tree object
\* in the store, and every parent it names has a commit object in the store.
C10_CommitsNameStoredObjects ==
    \A h \in CommitHashes(objects) :
        /\ TreeOf(h) \in DOMAIN objects
        /\ objects[TreeOf(h)].header.type = "tree"
        /\ ParentsOf(h) \subseteq CommitHashes(objects)

\* the order of the paths as byte strings
PathRank(p) == IF p = "a.txt" THEN 1 ELSE 2

\* the entries of an index in the order of their paths
SortByPath(entries) ==
    LET E == {entries[i] : i \in DOMAIN entries} IN
    CHOOSE s \in [DOMAIN entries -> E] :
        /\ {s[i] : i \in DOMAIN s} = E
        /\ \A i, j \in DOMAIN s : i < j => PathRank(s[i].path) < PathRank(s[j].path)

\* C11: the tree synthesized from the index is the tree of its entries sorted
\* by path, so that the tree hash does not depend on the order in which the
\* paths were added.
C11_TreeSortedByPath ==
    create_tree_from_index(objects, index, "ok").tree
        = create_tree_from_index(objects, SortByPath(index), "ok").tree

\* C12: a svcs_commit_create that returns OK while HEAD holds the hash h of a
\* commit directly records h as the parent of the new commit and makes HEAD
\* hold the hash of the new commit; it changes no branch ref.
C12_DetachedCommit ==
    [][(last'.op = "commit" /\ last'.res = "OK" /\ HeldHashes(HEAD) # {}) =>
        /\ ParentsOf(last'.hash) = HeldHashes(HEAD)
        /\ HEAD' = RefFile(last'.hash)
        /\ refs' = refs]_vars

\* the commits in the store that a commit object names as parents
StoredParents(h) == ParentsOf(h) \cap CommitHashes(objects)

RECURSIVE Closure(_, _)
\* the commits reachable from the commits S through zero or more parent links
Closure(S, n) ==
    IF n = 0 THEN S
    ELSE Closure(S \cup UNION {StoredParents(h) : h \in S}, n - 1)

TipHashes == UNION {HeldHashes(refs[n]) : n \in DOMAIN refs}

\* C13: after load_from_repository the node table holds exactly the commits
\* reachable from the branch tips through zero or more parent links.
C13_LoadedNodesAreReachableCommits ==
    \A view \in RefViews :
        load_from_repository(view)
            = {svcs_hash_to_string(h) :
                  h \in Closure(TipHashes \cap CommitHashes(objects), MaxCommits)}

SeqToSet(seq) == {seq[i] : i \in DOMAIN seq}

\* C14: roots holds exactly the nodes without parents and heads exactly the
\* nodes without children, each of them once.
C14_RootsAndHeads ==
    LET parentless == {k \in DOMAIN dag.nodes : dag.nodes[k].parents = <<>>}
        childless == {k \in DOMAIN dag.nodes : dag.nodes[k].children = <<>>}
    IN /\ SeqToSet(dag.roots) = parentless
       /\ Len(dag.roots) = Cardinality(parentless)
       /\ SeqToSet(dag.heads) = childless
       /\ Len(dag.heads) = Cardinality(childless)

RECURSIVE Up(_, _, _)
\* the nodes reached from the nodes S by one or more parent edges
Up(d, S, n) ==
    LET P == UNION {SeqToSet(d.nodes[k].parents) : k \in S} IN
    IF n = 0 THEN {} ELSE P \cup Up(d, P, n - 1)

\* C15: whatever hashes and parent lists add_commit was called with, no node
\* of the graph reaches itself through parent edges.
C15_Acyclic ==
    \A k \in DOMAIN dag.nodes : k \notin Up(dag, {k}, Cardinality(DOMAIN dag.nodes))

\* an add_commit whose parent list names the commit itself has entered it
C15_Witness ==
    /\ last.op = "add_commit"
    /\ last.self
    /\ last.added
    /\ svcs_hash_to_string(last.hash) \in DOMAIN dag.nodes

\* C16: for every order in which the node table is walked, topological_sort
\* returns every node once and every node before each of its children.
C16_TopologicalSort ==
    \A order \in Perms(DOMAIN dag.nodes) :
        LET r == topological_sort(dag, order) IN
        /\ Len(r) = Cardinality(DOMAIN dag.nodes)
        /\ SeqToSet(r) = DOMAIN dag.nodes
        /\ \A i, j \in DOMAIN r :
              r[j] \in SeqToSet(dag.nodes[r[i]].children) => i < j

\* a graph with a merge commit: a node with two different parents
C16_Witness ==
    \E k \in DOMAIN dag.nodes :
        /\ Len(dag.nodes[k].parents) = 2
        /\ dag.nodes[k].parents[1] # dag.nodes[k].parents[2]
        /\ Cardinality(SeqToSet(dag.roots)) = 2

\* the commit and its ancestors in the store
Anc(h) == Closure({h}, MaxCommits)

\* C17: for branch tips a and b that share an ancestor, the merge base found
\* for (a, b) is an ancestor of both or one of them, no other common ancestor
\* descends from it, and the merge base of a commit with itself is that
\* commit.
C17_MergeBase ==
    \A view \in RefViews :
        LET nodes == load_from_repository(view) IN
        \A a, b \in TipHashes \cap CommitHashes(objects) :
            (Anc(a) \cap Anc(b) # {}) =>
                LET m == find_merge_base(nodes, view, a, b) IN
                /\ m # NoNode
                /\ m.hex \in Anc(a) \cap Anc(b)
                /\ \A c \in Anc(a) \cap Anc(b) : c # m.hex => m.hex \notin Anc(c)
                /\ a = b => m.hex = a

\* the commits of the branch merged into and of the branch merged, when both
\* ref files hold the hash of a commit in the store
Ours == HeldHashes(refs[MergeTarget]) \cap CommitHashes(objects)
Theirs == HeldHashes(refs[MergeSource]) \cap CommitHashes(objects)

BothBranches ==
    /\ MergeTarget \in DOMAIN refs
    /\ MergeSource \in DOMAIN refs
    /\ HEAD = SymbolicHead(MergeTarget)

\* C18: a merge into the current branch whose commit is a proper ancestor of the
\* merged branch's commit succeeds as a fast-forward without conflicts,
\* writes no object and leaves the current branch's ref holding the merged
\* branch's commit.
C18_FastForward ==
    [][(last'.op = "merge" /\ BothBranches
            /\ \E o \in Ours, t \in Theirs : o # t /\ o \in Anc(t)) =>
        /\ last'.success
        /\ last'.fast_forward
        /\ last'.conflicts = 0
        /\ objects' = objects
        /\ \A t \in Theirs : refs'[MergeTarget] = RefFile(t)]_vars

\* C19: a merge of a branch whose commit is a proper ancestor of the current
\* branch's commit reports a fast-forward, writes no object and leaves the
\* refs, HEAD and the working tree as they were.
C19_AlreadyMerged ==
    [][(last'.op = "merge" /\ BothBranches
            /\ \E o \in Ours, t \in Theirs : o # t /\ t \in Anc(o)) =>
        /\ last'.fast_forward
        /\ objects' = objects
        /\ refs' = refs
        /\ HEAD' = HEAD
        /\ wt' = wt]_vars

\* C20: a three-way merge in which both sides equal the base returns the
\* base, one in which only ours differs from the base returns ours, and one
\* in which only theirs differs returns theirs, each without conflicts, for
\* line sequences of any lengths.
C20_ThreeWayIdentity ==
    tw.op = "merge3" =>
        /\ tw.theirs = tw.base =>
              /\ tw.result.merged_content = join_lines(tw.ours)
              /\ ~tw.result.has_conflicts
        /\ tw.ours = tw.base =>
              /\ tw.result.merged_content = join_lines(tw.theirs)
              /\ ~tw.result.has_conflicts

\* neither branch's commit is an ancestor of the other's and the two share an
\* ancestor
Diverged ==
    \E o \in Ours, t \in Theirs :
        o \notin Anc(t) /\ t \notin Anc(o) /\ Anc(o) \cap Anc(t) # {}

\* C21: a merge of diverged branches that returns without conflicts has
\* created a commit whose parents are the commits of both branches, and the
\* current branch's ref holds that commit's hash.
C21_MergeCommitHasTwoParents ==
    [][(last'.op = "merge" /\ BothBranches /\ Diverged /\ last'.conflicts = 0) =>
        \E h \in CommitHashes(objects') :
            /\ ParentsOf(h) = Ours \cup Theirs
            /\ refs'[MergeTarget] = RefFile(h)]_vars

\* the blob hashes a commit's tree records for a path
BlobsAt(h, path) ==
    IF is_zero(TreeOf(h)) THEN {}
    ELSE LET es == TreeOf(h).payload.entries
         IN {es[i].hash : i \in {j \in DOMAIN es : es[j].name = path}}

\* the two branches' commits and a common ancestor of them each record a
\* different content for the path
BothChanged(path) ==
    \E o \in Ours, t \in Theirs : \E c \in Anc(o) \cap Anc(t) :
        /\ BlobsAt(c, path) # {} /\ BlobsAt(o, path) # {} /\ BlobsAt(t, path) # {}
        /\ BlobsAt(c, path) # BlobsAt(o, path)
        /\ BlobsAt(c, path) # BlobsAt(t, path)
        /\ BlobsAt(o, path) # BlobsAt(t, path)

\* C22: a merge of diverged branches that each changed the same file in a
\* different way returns with a conflict reported, and leaves the object
\* store and the refs as they were.
C22_ConflictReported ==
    [][(last'.op = "merge" /\ BothBranches /\ Diverged
            /\ \E p \in CommitPaths : BothChanged(p)) =>
        /\ last'.conflicts >= 1
        /\ objects' = objects
        /\ refs' = refs]_vars

\* the contents of the lines of a hunk whose type is not the given one
ContentsWithout(lines, type) ==
    LET Keep(l) == l.type # type
        kept == SelectSeq(lines, Keep)
    IN [i \in 1..Len(kept) |-> kept[i].content]

\* C23: the contents of the non-Delete lines of the hunk compute_diff_lines
\* produces are, in order, the new lines, and the contents of its non-Add
\* lines are the old lines.
C23_DiffReconstructs ==
    (tw.op = "diff" /\ tw.result.res = "OK") =>
        /\ ContentsWithout(tw.result.hunk.lines, "DEL") = tw.new
        /\ ContentsWithout(tw.result.hunk.lines, "ADD") = tw.old

\* C24: svcs_index_status returns one entry per index entry, with status
\* Deleted when the file is gone, Modified when both its mtime and its blob
\* hash differ from the recorded ones and the recorded status otherwise, and
\* leaves the index in memory and on disk as they were.
C24_IndexStatus ==
    [][last'.op = "index_status" =>
        /\ index' = index
        /\ indexFile' = indexFile
        /\ Len(last'.entries) = Len(index)
        /\ \A i \in 1..Len(index) :
              LET f == wt[index[i].path] IN
              /\ last'.entries[i].path = index[i].path
              /\ last'.entries[i].status =
                    IF f = NoFile THEN "DELETED"
                    ELSE IF f.mtime # index[i].mtime
                            /\ svcs_hash_file(f) # index[i].hash
                    THEN "MODIFIED"
                    ELSE index[i].status]_vars

\* a status call has reported a modified file and an unchanged one
C24_Witness ==
    /\ last.op = "index_status"
    /\ \E i \in DOMAIN last.entries : last.entries[i].status = "MODIFIED"
    /\ \E i \in DOMAIN last.entries :
          /\ last.entries[i].status = "ADDED"
          /\ wt[last.entries[i].path] # NoFile
          /\ svcs_hash_file(wt[last.entries[i].path]) # last.entries[i].hash

\* C25: while sessions commit on the same branch side by side, the ref file
\* of the branch always holds the complete hash of a commit a session wrote,
\* and once no session has the file open it holds the hash of the session
\* whose write came last.
C25_RefNeverPartial ==
    \A b \in DOMAIN refs :
        /\ \E h \in CommitHashes(objects) : refs[b] = RefFile(h)
        /\ (last.op = "ref_write" /\ last.branch = b
                /\ \A i \in Sessions : sess[i].pc # "ref_open") =>
              refs[b] = RefFile(last.hash)

\* C26: whatever the traversal order, the commits get_commits_in_range
\* returns hold no commit with two or more parents when include_merges is
\* false, and at most max_count commits when max_count is positive.
C26_RangeFilters ==
    last.op = "range" =>
        /\ ~last.range.include_merges =>
              \A i \in DOMAIN last.result : ~is_merge_commit(dag, last.result[i])
        /\ last.range.max_count > 0 => Len(last.result) <= last.range.max_count

\* the nodes whose hex string starts with the digits
PrefixMatches(digits) ==
    {k \in DOMAIN dag.nodes : IsPrefix(digits, HexString(k.hex))}

\* C27: resolve_reference yields the node at the tip of the branch of that
\* name; for hex digits the node with that hex string, or the node whose hex
\* string starts with them when exactly one does; and no node when the
\* digits start the hex strings of several nodes or nothing matches.
C27_ResolveReference ==
    last.op = "resolve" =>
        IF "branch" \in DOMAIN last.ref
        THEN LET tips == IF last.ref.branch \in DOMAIN refs
                         THEN {svcs_hash_to_string(h) :
                                  h \in HeldHashes(refs[last.ref.branch])}
                                  \cap DOMAIN dag.nodes
                         ELSE {}
             IN IF tips # {} THEN last.result \in tips ELSE last.result = NoNode
        ELSE LET hits == PrefixMatches(last.ref.digits)
             IN IF Cardinality(hits) = 1 THEN last.result \in hits
                ELSE last.result = NoNode

\* C28: an svcs_index_add that returns anything but OK leaves the index in
\* memory and the index file as they were before the call.
C28_FailedAddChangesNothing ==
    [][(last'.op = "index_add" /\ last'.res # "OK") =>
        /\ index' = index
        /\ indexFile' = indexFile]_vars

\* C29: an add_commit leaves the parent edges of the nodes already in the
\* table as they are, so a node entered before one of its listed parents
\* never gains that edge, and every parent edge of the node it enters leads
\* to a node that was in the table before.
C29_ParentEdgesFixed ==
    [][last'.op = "add_commit" =>
        /\ \A k \in DOMAIN dag.nodes :
              /\ k \in DOMAIN dag'.nodes
              /\ dag'.nodes[k].parents = dag.nodes[k].parents
        /\ \A k \in DOMAIN dag'.nodes \ DOMAIN dag.nodes :
              \A i \in DOMAIN dag'.nodes[k].parents :
                  dag'.nodes[k].parents[i] \in DOMAIN dag.nodes]_vars

\* a commit has been entered before one of the parents it lists, beside a
\* node that has an edge to its parent
C29_Witness ==
    /\ last.op = "add_commit"
    /\ last.added
    /\ last.missing
    /\ \E k \in DOMAIN dag.nodes : dag.nodes[k].parents # <<>>

\* the longest of three sequences
MaxLength(a, b, c) ==
    LET m == IF Len(a) >= Len(b) THEN Len(a) ELSE Len(b)
    IN IF m >= Len(c) THEN m ELSE Len(c)

\* C30: three_way_merge_lines returns after at most max(|base|, |ours|,
\* |theirs|) runs of its loop.
C30_MergeTerminates ==
    tw.op = "merge3" => tw.iterations <= MaxLength(tw.base, tw.ours, tw.theirs)

\* a merge of sequences of different lengths that met a conflict
C30_Witness ==
    /\ tw.op = "merge3"
    /\ tw.result.has_conflicts
    /\ Len(tw.base) < Len(tw.ours)
    /\ Len(tw.theirs) < Len(tw.ours)
    /\ tw.iterations = Len(tw.ours)

====
